---------------------------- MODULE Spec2Model ----------------------------
(***************************************************************************)
(* A model of the batch file hasher (src/hasher.py): the OpenCL SHA-1      *)
(* kernel, the device selection, and the host run of main().               *)
(*                                                                         *)
(* A 32-bit unsigned word (OpenCL uint) is a pair <<hi, lo>> of its two    *)
(* 16-bit halves, so that no intermediate value leaves the integer range   *)
(* of TLC; every operation below is taken modulo 2^32.                     *)
(***************************************************************************)
EXTENDS Integers, Sequences, FiniteSets, TLC

(***************************************************************************)
(* Bounds of the model.                                                    *)
(***************************************************************************)
\* longest message the kernel specification hashes (bytes)
MaxLen == 66
\* most devices a platform of the device specification exposes
MaxDevices == 2

----------------------------------------------------------------------------
(***************************************************************************)
(* 32-bit unsigned arithmetic of the kernel language.                      *)
(***************************************************************************)
\* bitwise AND of two bytes, bit by bit
AndBits(a, b) ==
    LET bit(k) == ((a \div (2 ^ k)) % 2) * ((b \div (2 ^ k)) % 2) * (2 ^ k)
    IN  bit(0) + bit(1) + bit(2) + bit(3) + bit(4) + bit(5) + bit(6) + bit(7)

\* bitwise AND of two bytes, tabulated
AndT == [a \in 0..255 |-> [b \in 0..255 |-> AndBits(a, b)]]

And16(x, y) == AndT[x \div 256][y \div 256] * 256 + AndT[x % 256][y % 256]

\* a & b
And32(a, b) == <<And16(a[1], b[1]), And16(a[2], b[2])>>

\* a | b
Or32(a, b) == <<a[1] + b[1] - And16(a[1], b[1]), a[2] + b[2] - And16(a[2], b[2])>>

\* a ^ b
Xor32(a, b) ==
    <<a[1] + b[1] - 2 * And16(a[1], b[1]), a[2] + b[2] - 2 * And16(a[2], b[2])>>

\* ~a
Not32(a) == <<65535 - a[1], 65535 - a[2]>>

\* a + b, modulo 2^32
Add32(a, b) ==
    LET lo == a[2] + b[2]
        hi == a[1] + b[1] + (lo \div 65536)
    IN  <<hi % 65536, lo % 65536>>

\* a << n, for 0 <= n < 32
Shl32(a, n) ==
    IF n = 0 THEN a
    ELSE IF n < 16
        THEN <<((a[1] * (2 ^ n)) % 65536) + (a[2] \div (2 ^ (16 - n))),
               (a[2] * (2 ^ n)) % 65536>>
        ELSE <<(a[2] * (2 ^ (n - 16))) % 65536, 0>>

\* a >> n (logical: a is unsigned), for 0 <= n < 32
Shr32(a, n) ==
    IF n = 0 THEN a
    ELSE IF n < 16
        THEN <<a[1] \div (2 ^ n),
               (a[2] \div (2 ^ n)) + ((a[1] % (2 ^ n)) * (2 ^ (16 - n)))>>
        ELSE <<0, a[1] \div (2 ^ (n - 16))>>

\* the uint holding the bits of a non-negative int (and of a promoted uchar)
ToUint(n) == <<n \div 65536, n % 65536>>

\* the uchar a uint is converted to when stored to a byte: its low 8 bits
ToUchar(a) == a[2] % 256

----------------------------------------------------------------------------
(***************************************************************************)
(* sha1_kernel: the kernel's constants and the body of its chunk loop.     *)
(***************************************************************************)
\* h0..h4 as the kernel initialises them
InitialHash ==
    << <<26437, 8961>>, <<61389, 43913>>, <<39098, 56574>>,
       <<4146, 21622>>, <<50130, 57840>> >>

\* k[0..3]
RoundK ==
    << <<23170, 31129>>, <<28377, 60321>>, <<36635, 48348>>, <<51810, 49622>> >>

\* the fill loop without the branch that stores 0x80 (a wrong variant, for
\* testing that the known vectors depend on the padding marker)
FillChunk_NoMarker(input, length, idx) ==
    [j \in 1..64 |->
        LET pos == idx * 64 + (j - 1)
        IN  IF pos < length THEN input[pos + 1] ELSE 0]

\* chunk[i] for i in 0..63 (held at index i+1), before the length is written
FillChunk(input, length, idx) ==
    [j \in 1..64 |->
        LET pos == idx * 64 + (j - 1)
        IN  IF pos < length THEN input[pos + 1]
            ELSE IF pos = length THEN 128
            ELSE 0]

\* uint bit_len = length * 8 (the product keeps its low 32 bits)
BitLen(length) == Shl32(ToUint(length), 3)

\* bit_len & 0xFF, as stored to a chunk byte
LengthByte(bits) == ToUchar(And32(bits, <<0, 255>>))

\* the loop "chunk[63 - i] = bit_len & 0xFF; bit_len >>= 8": st[n] is
\* <<chunk, bit_len>> after n iterations
WriteLength(bytes64, bits) ==
    LET st[n \in 0..8] ==
            IF n = 0 THEN <<bytes64, bits>>
            ELSE LET prev == st[n - 1]
                     i == n - 1
                 IN  <<[prev[1] EXCEPT ![63 - i + 1] = LengthByte(prev[2])],
                       Shr32(prev[2], 8)>>
    IN  st[8][1]

\* the chunk as it reaches the message schedule
PaddedChunk(input, length, idx) ==
    LET filled == FillChunk(input, length, idx)
    IN  IF idx = length \div 64
        THEN WriteLength(filled, BitLen(length))
        ELSE filled

\* w[i] = chunk[4i] << 24 | chunk[4i+1] << 16 | chunk[4i+2] << 8 | chunk[4i+3]
ChunkWord(bytes64, i) ==
    Or32(Or32(Or32(Shl32(ToUint(bytes64[4 * i + 1]), 24),
                   Shl32(ToUint(bytes64[4 * i + 2]), 16)),
              Shl32(ToUint(bytes64[4 * i + 3]), 8)),
         ToUint(bytes64[4 * i + 4]))

\* iterations i = from..(to - 1) of the loop that fills w[16..79]: ws[n] holds
\* w[0..n-1], w[i] at index i+1
ExtendFrom(wfrom, from, to) ==
    IF Len(wfrom) # from THEN wfrom
    ELSE LET ws[n \in from..to] ==
                 IF n = from THEN wfrom
                 ELSE LET w == ws[n - 1]
                          i == n - 1
                          temp == Xor32(Xor32(Xor32(w[i - 3 + 1], w[i - 8 + 1]),
                                              w[i - 14 + 1]),
                                        w[i - 16 + 1])
                      IN  Append(w, Or32(Shl32(temp, 1), Shr32(temp, 31)))
         IN  ws[to]

\* w[16..79], computed in four runs of sixteen iterations
ExtendSchedule(w16) ==
    ExtendFrom(ExtendFrom(ExtendFrom(ExtendFrom(w16, 16, 32), 32, 48), 48, 64), 64, 80)

Schedule(bytes64) ==
    ExtendSchedule(<<ChunkWord(bytes64, 0), ChunkWord(bytes64, 1), ChunkWord(bytes64, 2),
                     ChunkWord(bytes64, 3), ChunkWord(bytes64, 4), ChunkWord(bytes64, 5),
                     ChunkWord(bytes64, 6), ChunkWord(bytes64, 7), ChunkWord(bytes64, 8),
                     ChunkWord(bytes64, 9), ChunkWord(bytes64, 10), ChunkWord(bytes64, 11),
                     ChunkWord(bytes64, 12), ChunkWord(bytes64, 13), ChunkWord(bytes64, 14),
                     ChunkWord(bytes64, 15)>>)

\* f of round i
RoundF(i, b, c, d) ==
    IF i < 20 THEN Or32(And32(b, c), And32(Not32(b), d))
    ELSE IF i < 40 THEN Xor32(Xor32(b, c), d)
    ELSE IF i < 60 THEN Or32(Or32(And32(b, c), And32(b, d)), And32(c, d))
    ELSE Xor32(Xor32(b, c), d)

\* k_temp of round i
RoundConst(i) ==
    IF i < 20 THEN RoundK[1]
    ELSE IF i < 40 THEN RoundK[2]
    ELSE IF i < 60 THEN RoundK[3]
    ELSE RoundK[4]

\* one iteration of the main loop on s = <<a, b, c, d, e>>
Round(s, w, i) ==
    LET temp == Add32(Add32(Add32(Add32(Or32(Shl32(s[1], 5), Shr32(s[1], 27)),
                                        RoundF(i, s[2], s[3], s[4])),
                                  s[5]),
                            RoundConst(i)),
                      w[i + 1])
    IN  <<temp, s[1], Or32(Shl32(s[2], 30), Shr32(s[2], 2)), s[3], s[4]>>

\* iterations i = from..(to - 1) of the main loop: st[n] is <<a, b, c, d, e>>
\* before iteration n
RoundsFrom(s, w, from, to) ==
    IF Len(s) # 5 \/ Len(w) # 80 THEN s
    ELSE LET st[n \in from..to] ==
                 IF n = from THEN s
                 ELSE LET prev == st[n - 1]
                      IN  IF Len(prev) = 5 THEN Round(prev, w, n - 1) ELSE prev
         IN  st[to]

\* the main loop, computed in four runs of twenty iterations
Rounds(s, w) ==
    RoundsFrom(RoundsFrom(RoundsFrom(RoundsFrom(s, w, 0, 20), w, 20, 40), w, 40, 60),
               w, 60, 80)

\* h0 += a; h1 += b; h2 += c; h3 += d; h4 += e
AddState(hh, s) ==
    <<Add32(hh[1], s[1]), Add32(hh[2], s[2]), Add32(hh[3], s[3]),
      Add32(hh[4], s[4]), Add32(hh[5], s[5])>>

\* one chunk: schedule, 80 rounds, and the addition into h0..h4
Compress(hh, bytes64) == AddState(hh, Rounds(hh, Schedule(bytes64)))

\* output[i*4 .. i*4+3] for i in 0..4
OutputBytes(hh) ==
    LET bytes(word) == <<ToUchar(Shr32(word, 24)), ToUchar(Shr32(word, 16)),
                         ToUchar(Shr32(word, 8)), ToUchar(word)>>
    IN  bytes(hh[1]) \o bytes(hh[2]) \o bytes(hh[3]) \o bytes(hh[4]) \o bytes(hh[5])

\* the chunk loop: hs[n] is <<h0, .., h4>> after n chunks
ChunkLoop(input, length) ==
    LET hs[n \in 0..((length \div 64) + 1)] ==
            IF n = 0 THEN InitialHash
            ELSE Compress(hs[n - 1], PaddedChunk(input, length, n - 1))
    IN  hs[(length \div 64) + 1]

\* the 20 bytes one work-item writes for an input buffer and its length
Sha1Kernel(input, length) == OutputBytes(ChunkLoop(input, length))

----------------------------------------------------------------------------
(***************************************************************************)
(* The Secure Hash Standard (FIPS 180-4) SHA-1, written from the standard: *)
(* the digest the kernel's output is compared with.                        *)
(***************************************************************************)
\* byte i (0 the most significant) of the 64-bit big-endian count of bits of
\* an n-byte message
FipsLengthByte(n, i) ==
    LET j == 7 - i
    IN  IF j = 0 THEN (n % 32) * 8
        ELSE IF 8 * j - 3 >= 31 THEN 0
        ELSE (n \div (2 ^ (8 * j - 3))) % 256

FipsLengthField(n) == [i \in 1..8 |-> FipsLengthByte(n, i - 1)]

\* 5.1.1: the message, 0x80, zero bytes up to 56 modulo 64, the length field
FipsPad(msg) ==
    LET n == Len(msg)
        zeros == (64 + 55 - (n % 64)) % 64
    IN  msg \o <<128>> \o [i \in 1..zeros |-> 0] \o FipsLengthField(n)

FipsRotl(x, n) == Or32(Shl32(x, n), Shr32(x, 32 - n))

FipsCh(x, y, z) == Xor32(And32(x, y), And32(Not32(x), z))
FipsParity(x, y, z) == Xor32(Xor32(x, y), z)
FipsMaj(x, y, z) == Xor32(Xor32(And32(x, y), And32(x, z)), And32(y, z))

\* 4.1.1 and 4.2.1
FipsF(t, x, y, z) ==
    IF t <= 19 THEN FipsCh(x, y, z)
    ELSE IF t <= 39 THEN FipsParity(x, y, z)
    ELSE IF t <= 59 THEN FipsMaj(x, y, z)
    ELSE FipsParity(x, y, z)

FipsK(t) ==
    IF t <= 19 THEN <<23170, 31129>>
    ELSE IF t <= 39 THEN <<28377, 60321>>
    ELSE IF t <= 59 THEN <<36635, 48348>>
    ELSE <<51810, 49622>>

FipsH0 ==
    << <<26437, 8961>>, <<61389, 43913>>, <<39098, 56574>>,
       <<4146, 21622>>, <<50130, 57840>> >>

\* 6.1.2 step 1: the message schedule of block number blk (from 0) of padded
RECURSIVE FipsSchedule(_, _, _)
FipsSchedule(padded, blk, w) ==
    LET t == Len(w)
    IN  IF t >= 80 THEN w
        ELSE IF t <= 15
            THEN FipsSchedule(padded, blk,
                    Append(w, <<padded[64 * blk + 4 * t + 1] * 256
                                    + padded[64 * blk + 4 * t + 2],
                                padded[64 * blk + 4 * t + 3] * 256
                                    + padded[64 * blk + 4 * t + 4]>>))
            ELSE FipsSchedule(padded, blk,
                    Append(w, FipsRotl(Xor32(Xor32(Xor32(w[t - 2], w[t - 7]), w[t - 13]),
                                             w[t - 15]), 1)))

\* 6.1.2 step 3, from round t on; v = <<a, b, c, d, e>>
RECURSIVE FipsRounds(_, _, _)
FipsRounds(v, w, t) ==
    IF t >= 80 THEN v
    ELSE LET big == Add32(Add32(Add32(Add32(FipsRotl(v[1], 5), FipsF(t, v[2], v[3], v[4])),
                                      v[5]), FipsK(t)), w[t + 1])
         IN  IF big = big
             THEN FipsRounds(<<big, v[1], FipsRotl(v[2], 30), v[3], v[4]>>, w, t + 1)
             ELSE v

RECURSIVE FipsBlocks(_, _, _)
FipsBlocks(hv, padded, blk) ==
    IF 64 * blk >= Len(padded) THEN hv
    ELSE LET v == FipsRounds(hv, FipsSchedule(padded, blk, <<>>), 0)
         IN  FipsBlocks([n \in 1..5 |-> Add32(hv[n], v[n])], padded, blk + 1)

\* the 20-byte digest of msg
FipsSha1(msg) ==
    LET hv == FipsBlocks(FipsH0, FipsPad(msg), 0)
    IN  [p \in 1..20 |->
            LET word == hv[((p - 1) \div 4) + 1]
                half == word[(((p - 1) % 4) \div 2) + 1]
            IN  IF (p - 1) % 2 = 0 THEN half \div 256 ELSE half % 256]

----------------------------------------------------------------------------
(***************************************************************************)
(* Strings and paths of the host program.  A string is a sequence of       *)
(* characters; a path is the string the program passes around.             *)
(***************************************************************************)
UpperLetters == "ABCDEFGHIJKLMNOPQRSTUVWXYZ"
LowerLetters == "abcdefghijklmnopqrstuvwxyz"

CharAt(s, i) == SubSeq(s, i, i)

\* str.lower() of one character
LowerChar(c) ==
    IF \E i \in 1..26 : CharAt(UpperLetters, i) = c
    THEN CharAt(LowerLetters, CHOOSE i \in 1..26 : CharAt(UpperLetters, i) = c)
    ELSE c

\* str.lower()
RECURSIVE Lower(_)
Lower(s) == IF Len(s) = 0 THEN "" ELSE LowerChar(CharAt(s, 1)) \o Lower(SubSeq(s, 2, Len(s)))

\* str.startswith(prefix)
StartsWith(s, prefix) == Len(s) >= Len(prefix) /\ SubSeq(s, 1, Len(prefix)) = prefix

\* the largest index of character c in s, 0 when there is none (str.rfind + 1)
LastIndexOf(s, c) ==
    LET hits == {i \in 1..Len(s) : CharAt(s, i) = c}
    IN  IF hits = {} THEN 0 ELSE CHOOSE i \in hits : \A j \in hits : j <= i

\* os.path.isabs
IsAbs(path) == StartsWith(path, "/")

\* os.path.join(a, b)
Join(a, b) ==
    IF IsAbs(b) THEN b
    ELSE IF a = "" \/ CharAt(a, Len(a)) = "/" THEN a \o b
    ELSE a \o "/" \o b

\* os.path.basename
Basename(path) == SubSeq(path, LastIndexOf(path, "/") + 1, Len(path))

\* os.path.dirname
Dirname(path) ==
    LET i == LastIndexOf(path, "/")
        head == SubSeq(path, 1, i)
    IN  IF i = 0 THEN ""
        ELSE IF \A j \in 1..i : CharAt(head, j) = "/" THEN head
        ELSE SubSeq(path, 1, CHOOSE k \in 1..i :
                                 /\ CharAt(path, k) # "/"
                                 /\ \A j \in (k + 1)..i : CharAt(path, j) = "/")

\* os.path.splitext(name)[1], for a name without a separator
SplitextExt(name) ==
    LET dot == LastIndexOf(name, ".")
    IN  IF dot = 0 THEN ""
        ELSE IF \A j \in 1..(dot - 1) : CharAt(name, j) = "." THEN ""
        ELSE SubSeq(name, dot, Len(name))

DecimalDigits == "0123456789"
HexDigits == "0123456789abcdef"

\* format(i, '03d')
Format03d(i) ==
    IF i < 1000
    THEN CharAt(DecimalDigits, ((i \div 100) % 10) + 1)
            \o CharAt(DecimalDigits, ((i \div 10) % 10) + 1)
            \o CharAt(DecimalDigits, (i % 10) + 1)
    ELSE CharAt(DecimalDigits, (i \div 1000) + 1)
            \o CharAt(DecimalDigits, ((i \div 100) % 10) + 1)
            \o CharAt(DecimalDigits, ((i \div 10) % 10) + 1)
            \o CharAt(DecimalDigits, (i % 10) + 1)

\* format(byte, 'x'): no zero padding (a wrong variant, for testing that the
\* width of HASH depends on the format)
Format02x_NoPad(byte) ==
    IF byte < 16 THEN CharAt(HexDigits, byte + 1)
    ELSE CharAt(HexDigits, (byte \div 16) + 1) \o CharAt(HexDigits, (byte % 16) + 1)

\* format(byte, '02x')
Format02x(byte) ==
    CharAt(HexDigits, (byte \div 16) + 1) \o CharAt(HexDigits, (byte % 16) + 1)

\* ''.join(format(byte, '02x') for byte in output_data)
HashHex(bytes) ==
    LET hex[n \in 0..Len(bytes)] ==
            IF n = 0 THEN "" ELSE hex[n - 1] \o Format02x(bytes[n])
    IN  hex[Len(bytes)]

----------------------------------------------------------------------------
(***************************************************************************)
(* Devices: the platforms OpenCL reports, the listing and the selection.   *)
(***************************************************************************)
VendorNames == {"NVIDIA", "AMD", "Intel", "ARM"}
MemSizes == {1, 2, 4}
DeviceKinds == [vendor : VendorNames, global_mem_size : MemSizes]

\* platform.get_devices(): the devices of platform number p (from 1), each
\* with the platform and the position that identify it
GetDevices(plats, p) ==
    [i \in 1..Len(plats[p]) |->
        [plat |-> p, idx |-> i, vendor |-> plats[p][i].vendor,
         global_mem_size |-> plats[p][i].global_mem_size]]

\* bool as the int it is ordered as
BoolInt(b) == IF b THEN 1 ELSE 0

\* the sort key of select_best_device
SortKey(d) ==
    <<0 - d.global_mem_size,
      BoolInt(StartsWith(Lower(d.vendor), "nvidia")),
      BoolInt(StartsWith(Lower(d.vendor), "amd")),
      BoolInt(StartsWith(Lower(d.vendor), "intel"))>>

\* tuple comparison k1 < k2
KeyLess(k1, k2) ==
    \E i \in 1..Len(k1) :
        /\ \A j \in 1..(i - 1) : k1[j] = k2[j]
        /\ k1[i] < k2[i]

\* sorted(): stable, so an element goes after those whose key is not larger
RECURSIVE InsertSorted(_, _)
InsertSorted(sorted, d) ==
    IF Len(sorted) = 0 THEN <<d>>
    ELSE IF KeyLess(SortKey(d), SortKey(sorted[Len(sorted)]))
        THEN Append(InsertSorted(SubSeq(sorted, 1, Len(sorted) - 1), d),
                    sorted[Len(sorted)])
        ELSE Append(sorted, d)

RECURSIVE SortedDevices(_)
SortedDevices(devs) ==
    IF Len(devs) = 0 THEN <<>>
    ELSE InsertSorted(SortedDevices(SubSeq(devs, 1, Len(devs) - 1)), devs[Len(devs)])

select_best_device(devs) == SortedDevices(devs)[1]

\* main's choice between the override (args.device, <<>> when not given) and
\* the default: <<selected_device>>, or <<>> when the index is out of range
ResolveDevice(devs, device) ==
    IF device # <<>>
    THEN IF device[1] < 0 \/ device[1] >= Len(devs) THEN <<>>
         ELSE <<devs[device[1] + 1]>>
    ELSE <<select_best_device(devs)>>

\* the lines list_opencl_devices prints, each with the device it is printed for
RECURSIVE ListingFrom(_, _)
ListingFrom(plats, p) ==
    IF p > Len(plats) THEN <<>>
    ELSE [i \in 1..Len(plats[p]) |->
             [id |-> i - 1, name |-> plats[p][i].vendor, dev |-> GetDevices(plats, p)[i]]]
         \o ListingFrom(plats, p + 1)

list_opencl_devices(plats) == ListingFrom(plats, 1)

----------------------------------------------------------------------------
(***************************************************************************)
(* The file system and the host side of the dispatch.                      *)
(***************************************************************************)
\* os.getcwd()
Cwd == "/w"

\* the candidate names generate_unique_filename tries: range(1000)
NumCandidates == 1000

\* f"{base_name}_{i:03d}.txt" joined to the directory
CandidatePath(base_name, directory, i) ==
    Join(directory, base_name \o "_" \o Format03d(i) \o ".txt")

\* the loop with its test inverted, "if os.path.exists(full_path)": the first
\* candidate that exists (a wrong variant, for testing the collision rule)
generate_unique_filename_Inverted(base_name, directory, exist) ==
    LET taken == {i \in 0..(NumCandidates - 1) :
                     CandidatePath(base_name, directory, i) \in exist}
    IN  IF taken = {} THEN ""
        ELSE CandidatePath(base_name, directory,
                           CHOOSE i \in taken : \A j \in taken : i <= j)

\* the first candidate that does not exist; "" when the loop ends without one
\* (the function then raises FileExistsError)
generate_unique_filename(base_name, directory, exist) ==
    LET free == {i \in 0..(NumCandidates - 1) :
                    CandidatePath(base_name, directory, i) \notin exist}
    IN  IF free = {} THEN ""
        ELSE CandidatePath(base_name, directory,
                           CHOOSE i \in free : \A j \in free : i <= j)

\* the files of a directory with read permission, in directory order
ReadableFiles(root, entries) ==
    LET keep(e) == e.kind # "dir" /\ e.readable
        kept == SelectSeq(entries, keep)
    IN  [i \in 1..Len(kept) |-> Join(root, kept[i].name)]

\* os.walk below root, from entry number i of root on: for each subdirectory
\* that can be listed, its files and then its own subdirectories, top-down
RECURSIVE WalkSubdirs(_, _, _)
WalkSubdirs(root, entries, i) ==
    IF i > Len(entries) THEN <<>>
    ELSE (IF entries[i].kind = "dir" /\ entries[i].readable
          THEN ReadableFiles(Join(root, entries[i].name), entries[i].children)
               \o WalkSubdirs(Join(root, entries[i].name), entries[i].children, 1)
          ELSE <<>>)
         \o WalkSubdirs(root, entries, i + 1)

scan_directory(entries, path, recursive) ==
    IF recursive
    THEN ReadableFiles(path, entries) \o WalkSubdirs(path, entries, 1)
    ELSE LET keep(e) == e.kind = "file" /\ e.readable
             kept == SelectSeq(entries, keep)
         IN  [i \in 1..Len(kept) |-> Join(path, kept[i].name)]

\* the bytes f.read() returns for a path below root
RECURSIVE FileData(_, _, _, _)
FileData(root, entries, path, i) ==
    IF i > Len(entries) THEN <<>>
    ELSE IF entries[i].kind = "dir"
        THEN IF StartsWith(path, Join(root, entries[i].name) \o "/")
             THEN FileData(Join(root, entries[i].name), entries[i].children, path, 1)
             ELSE FileData(root, entries, path, i + 1)
        ELSE IF Join(root, entries[i].name) = path THEN entries[i].data
             ELSE FileData(root, entries, path, i + 1)

\* np.array([n], dtype=np.int32)[0]
Int32Of(n) == IF n <= 2147483647 THEN n ELSE ((n - 2147483647) - 2147483647) - 2

\* message contents: byte i is (seed + i * step) mod 256
Patterns == {<<97, 1>>, <<255, 0>>}

PatternBytes(p, n) == [i \in 1..n |-> (p[1] + (i - 1) * p[2]) % 256]

\* the contents of the files of the modelled directory trees
FileContents == {<<>>, <<97, 98, 99>>, PatternBytes(<<97, 1>>, 56)}

\* what the kernel writes for these contents, tabulated
KernelTable == {<<m, Sha1Kernel(m, Int32Of(Len(m)))>> : m \in FileContents}

\* the device runs sha1_kernel on one work-item
RunKernel(input, lens) ==
    IF input \in FileContents /\ lens[1] = Int32Of(Len(input))
    THEN (CHOOSE e \in KernelTable : e[1] = input)[2]
    ELSE Sha1Kernel(input, lens[1])

ReportHeader == <<"FILE_PATH", "FILE_NAME", "FILE_EXTENSION", "HASH">>

\* the row main writes for one (file, hash) pair
ReportRow(pair) ==
    <<pair[1], Basename(pair[1]), SplitextExt(Basename(pair[1])), pair[2]>>

----------------------------------------------------------------------------
(***************************************************************************)
(* The inputs of the model: arguments, platforms, directory trees.         *)
(***************************************************************************)
Kind(v, m) == [vendor |-> v, global_mem_size |-> m]

\* an absent optional argument is the empty sequence, a given one <<value>>
Overrides == {<<>>} \cup {<<i>> : i \in -1..MaxDevices}

\* device lists of three devices with the memories 1, 2 and 4
Mem124 ==
    {c \in [1..3 -> DeviceKinds] : {c[i].global_mem_size : i \in 1..3} = MemSizes}

DeviceLists == UNION {[1..n -> DeviceKinds] : n \in 0..MaxDevices} \cup Mem124

\* the platform lists of the device specification
Catalogs ==
    {<<>>} \cup {<<c>> : c \in DeviceLists}
           \cup {<<c, <<Kind("AMD", 4)>> >> : c \in DeviceLists}

\* the platform lists of the run specification
SmallCatalogs ==
    { <<>>,
      << <<>> >>,
      << <<Kind("Intel", 2)>> >>,
      << <<Kind("NVIDIA", 4), Kind("ARM", 4)>>, <<Kind("AMD", 1)>> >> }

File(n, r, d) == [name |-> n, kind |-> "file", readable |-> r, data |-> d, children |-> <<>>]
Dir(n, r, c) == [name |-> n, kind |-> "dir", readable |-> r, data |-> <<>>, children |-> c]

TreeEntries ==
    << File("abc", TRUE, <<97, 98, 99>>),
       File("e.txt", TRUE, <<>>),
       File(".u", FALSE, <<97, 98, 99>>),
       Dir("s", TRUE, <<File("m.bin", TRUE, PatternBytes(<<97, 1>>, 56)),
                        File("k", TRUE, <<97, 98, 99>>)>>) >>

\* the entries of seq at the positions in S, in order
RECURSIVE Pick(_, _, _)
Pick(seq, S, i) ==
    IF i > Len(seq) THEN <<>>
    ELSE (IF i \in S THEN <<seq[i]>> ELSE <<>>) \o Pick(seq, S, i + 1)

\* an entry that is neither a directory nor a regular file (a FIFO, a socket,
\* a device node): DirEntry.is_file() is False, os.walk lists it among files
Special(n, r) == [name |-> n, kind |-> "special", readable |-> r, data |-> <<>>, children |-> <<>>]

\* the entries of the scan specification: three levels, unreadable files, a
\* directory that cannot be listed, special files
ScanEntries ==
    << File("a", TRUE, <<97>>),
       File(".u", FALSE, <<97>>),
       Special("p", TRUE),
       Special("q", FALSE),
       Dir("s", TRUE, << File("m", TRUE, <<98>>),
                         Dir("t", TRUE, << File("n", TRUE, <<99>>),
                                           File("x", FALSE, <<99>>) >>) >>),
       Dir("v", FALSE, << File("h", TRUE, <<100>>) >>) >>

\* the directory trees of the scan specification
ScanTrees == {Pick(ScanEntries, S, 1) : S \in SUBSET (1..Len(ScanEntries))}

\* the parsed command lines of the scan specification
ScanArgs ==
    [list : {FALSE}, path : {"/d"}, device : {<<>>}, output : {""},
     recursive : BOOLEAN]

\* the directory trees: every selection of the entries
Trees == {Pick(TreeEntries, S, 1) : S \in SUBSET (1..Len(TreeEntries))}

DefaultOutput == Join(Cwd, "output.csv")

\* the sets of existing output files the run may find
ExistingSets ==
    { {},
      {Join(Cwd, "r.csv")},
      {"/o/r.csv"},
      {DefaultOutput},
      {DefaultOutput, CandidatePath("output", Cwd, 0)},
      {DefaultOutput, CandidatePath("output", Cwd, 1)},
      {DefaultOutput, CandidatePath("output", Cwd, 0), CandidatePath("output", Cwd, 1)},
      {DefaultOutput} \cup {CandidatePath("output", Cwd, i) : i \in 0..(NumCandidates - 1)} }

ListArgs ==
    [list |-> TRUE, path |-> "", device |-> <<>>, output |-> "", recursive |-> FALSE]

\* the parsed command lines of the run specification
MainArgs ==
    {ListArgs} \cup
    [list : {FALSE}, path : {"", "/d"}, device : {<<>>, <<-1>>, <<0>>, <<1>>},
     output : {"", "r.csv", "/o/r.csv"}, recursive : BOOLEAN]

\* the parsed command lines of the device specification
DeviceArgs ==
    {ListArgs} \cup
    [list : {FALSE}, path : {"/d"}, device : Overrides, output : {""},
     recursive : {FALSE}]

----------------------------------------------------------------------------
VARIABLES
    \* sha1_kernel on one work-item
    kpc, kInput, kLength, chunk_idx, chunk, h, kOutput, stream,
    \* the length descriptor and the length field of the last chunk
    lpc, fileLen, lengths, bit_len, li, field,
    \* main(): position, arguments and environment
    pc, args, platforms, existing, tree,
    \* main(): locals
    passed, output_path, devices, selected_device, files_to_process,
    \* perform_hashing: locals, device buffers and command queue
    fidx, file_data, input_buffer, output_buffer, lengths_buffer, queue,
    output_data, hashes,
    \* the device regions (cl.Buffer objects) that have not been released
    regions,
    \* what the run leaves: printed listing, report file, final message
    listing, report, outcome,
    \* history: files read, kernels enqueued, the failure that was raised
    nRead, nLaunched, failed,
    \* sugoi.py, translate_line and send_request_to_server: position, arguments,
    \* loop counter, the POST attempts made so far with their outcomes, the
    \* value send_request_to_server returned, the exception it raised, and
    \* the pair translate_line returned
    spc, line, max_retries, attempt, posts, translated_line, raised, returned

kvars == <<kpc, kInput, kLength, chunk_idx, chunk, h, kOutput, stream>>
lvars == <<lpc, fileLen, lengths, bit_len, li, field>>
envvars == <<args, platforms, existing, tree>>
setupvars == <<passed, output_path, devices, selected_device, files_to_process>>
loopvars == <<fidx, file_data, hashes>>
devvars == <<input_buffer, output_buffer, lengths_buffer, queue, output_data, regions>>
outvars == <<listing, report>>
histvars == <<nRead, nLaunched, failed>>
mvars == <<pc, envvars, setupvars, loopvars, devvars, outvars, outcome, histvars>>
svars == <<spc, line, max_retries, attempt, posts, translated_line, raised, returned>>
vars == <<kvars, lvars, mvars, svars>>

NoBuffer == [live |-> FALSE, written |-> FALSE, data |-> <<>>]
NoReport == [written |-> FALSE, path |-> "", rows |-> <<>>]
NoFailure == [path |-> "", stage |-> ""]

KernelOff ==
    /\ kpc = "off"
    /\ kInput = <<>>
    /\ kLength = 0
    /\ chunk_idx = 0
    /\ chunk = <<>>
    /\ h = InitialHash
    /\ kOutput = <<>>
    /\ stream = <<>>

LengthOff ==
    /\ lpc = "off"
    /\ fileLen = 0
    /\ lengths = <<>>
    /\ bit_len = <<0, 0>>
    /\ li = 0
    /\ field = <<>>

\* main() before its first statement, but for pc, args and platforms
SugoiOff ==
    /\ spc = "off"
    /\ line = ""
    /\ max_retries = 0
    /\ attempt = 0
    /\ posts = <<>>
    /\ translated_line = <<>>
    /\ raised = ""
    /\ returned = <<>>

MainLocalsInit ==
    /\ existing = {}
    /\ tree = <<>>
    /\ devices = <<>>
    /\ selected_device = <<>>
    /\ files_to_process = <<>>
    /\ fidx = 0
    /\ file_data = <<>>
    /\ input_buffer = NoBuffer
    /\ output_buffer = NoBuffer
    /\ lengths_buffer = NoBuffer
    /\ regions = {}
    /\ queue = <<>>
    /\ output_data = <<>>
    /\ hashes = <<>>
    /\ listing = <<>>
    /\ report = NoReport
    /\ outcome = ""
    /\ nRead = 0
    /\ nLaunched = 0
    /\ failed = NoFailure

MainOff ==
    /\ pc = "off"
    /\ args = ListArgs
    /\ platforms = <<>>
    /\ passed = {}
    /\ output_path = ""
    /\ MainLocalsInit

----------------------------------------------------------------------------
(***************************************************************************)
(* sha1_kernel as a state machine: one step per chunk of the message.      *)
(***************************************************************************)
KernelInit ==
    /\ kpc = "loop"
    /\ \E n \in 0..MaxLen, p \in Patterns :
          /\ kLength = n
          /\ kInput = PatternBytes(p, n)
    /\ chunk_idx = 0
    /\ chunk = <<>>
    /\ h = InitialHash
    /\ kOutput = <<>>
    /\ stream = <<>>
    /\ LengthOff
    /\ MainOff
    /\ SugoiOff

\* one iteration of "for (chunk_idx = 0; chunk_idx <= length / 64; chunk_idx++)"
KernelChunk ==
    /\ kpc = "loop"
    /\ chunk_idx <= kLength \div 64
    /\ chunk' = PaddedChunk(kInput, kLength, chunk_idx)
    /\ h' = Compress(h, chunk')
    /\ chunk_idx' = chunk_idx + 1
    /\ stream' = stream \o chunk'
    /\ UNCHANGED <<kpc, kInput, kLength, kOutput, lvars, mvars, svars>>

\* the loop ends and the hash is written to output
KernelOutput ==
    /\ kpc = "loop"
    /\ chunk_idx > kLength \div 64
    /\ kOutput' = OutputBytes(h)
    /\ kpc' = "done"
    /\ UNCHANGED <<kInput, kLength, chunk_idx, chunk, h, stream, lvars, mvars, svars>>

KernelNext == KernelChunk \/ KernelOutput

KernelSpec == KernelInit /\ [][KernelNext]_vars

----------------------------------------------------------------------------
(***************************************************************************)
(* The length of a file on its way into the last chunk: the descriptor the *)
(* host builds, the kernel's bit_len, and the eight bytes chunk[56..63]    *)
(* (held in field[1..8]).  The chunks before the last do not touch them.   *)
(* The files of this specification consist of zero bytes.                  *)
(***************************************************************************)
FileLengths ==
    {0, 1, 3, 55, 56, 64, 65, 2 ^ 16, 2 ^ 24 + 5, 2 ^ 28, 2 ^ 29 - 1, 2 ^ 29,
     2 ^ 29 + 1, 2 ^ 30, 2 ^ 30 + 2 ^ 29 + 7, 2147483647}

LengthInit ==
    /\ lpc = "host"
    /\ fileLen \in FileLengths
    /\ lengths = <<>>
    /\ bit_len = <<0, 0>>
    /\ li = 0
    /\ field = <<>>
    /\ KernelOff
    /\ MainOff
    /\ SugoiOff

\* lengths = np.array([len(file_data)], dtype=np.int32)
HostLengths ==
    /\ lpc = "host"
    /\ lengths' = <<Int32Of(fileLen)>>
    /\ lpc' = "kernel"
    /\ UNCHANGED <<fileLen, bit_len, li, field, kvars, mvars, svars>>

\* int length = lengths[idx]; in the last chunk, after the fill loop:
\* uint bit_len = length * 8
KernelBitLen ==
    /\ lpc = "kernel"
    /\ bit_len' = BitLen(lengths[1])
    /\ field' = [i \in 1..8 |->
                    LET pos == (lengths[1] \div 64) * 64 + 55 + i
                    IN  IF pos < lengths[1] THEN 0
                        ELSE IF pos = lengths[1] THEN 128
                        ELSE 0]
    /\ li' = 0
    /\ lpc' = "loop"
    /\ UNCHANGED <<fileLen, lengths, kvars, mvars, svars>>

\* one iteration of "for (int i = 0; i < 8; i++)"
KernelLengthByte ==
    /\ lpc = "loop"
    /\ li < 8
    /\ field' = [field EXCEPT ![(63 - li) - 55] = LengthByte(bit_len)]
    /\ bit_len' = Shr32(bit_len, 8)
    /\ li' = li + 1
    /\ lpc' = IF li + 1 < 8 THEN "loop" ELSE "done"
    /\ UNCHANGED <<fileLen, lengths, kvars, mvars, svars>>

LengthNext == HostLengths \/ KernelBitLen \/ KernelLengthByte

LengthSpec == LengthInit /\ [][LengthNext]_vars

----------------------------------------------------------------------------
(***************************************************************************)
(* main(): one action per statement group; perform_hashing: one action per *)
(* statement of the loop body.  The answers of the operating system and of *)
(* OpenCL are drawn where the program asks for them.                       *)
(***************************************************************************)
Init ==
    /\ pc = "start"
    /\ args \in MainArgs
    /\ platforms \in SmallCatalogs
    /\ passed = {}
    /\ output_path = ""
    /\ MainLocalsInit
    /\ KernelOff
    /\ LengthOff
    /\ SugoiOff

\* the run ends with a printed message
Exit(msg) ==
    /\ pc' = "done"
    /\ outcome' = msg

\* the path of the file the loop is at
CurrentFile == files_to_process[fidx]

\* the device region that a cl.Buffer call of the current iteration creates
Region(name) == <<fidx, name>>

\* a statement of the loop body raises; main's except clause is next
Raise(stage) ==
    /\ pc' = "except"
    /\ failed' = [path |-> CurrentFile, stage |-> stage]

\* if args.list: list_opencl_devices(); return
ListDevices ==
    /\ pc = "start"
    /\ args.list
    /\ listing' = list_opencl_devices(platforms)
    /\ Exit("listed")
    /\ UNCHANGED <<envvars, setupvars, loopvars, devvars, report, histvars, kvars, lvars,
                   svars>>

\* the checks of args.path
CheckPath ==
    /\ pc = "start"
    /\ ~args.list
    /\ \E isdir \in BOOLEAN, readable \in BOOLEAN :
          IF args.path = ""
          THEN Exit("Error: Path to the directory is required.") /\ passed' = passed
          ELSE IF ~isdir
          THEN Exit("Error: not a directory.") /\ passed' = passed
          ELSE IF ~readable
          THEN Exit("Error: No read permission for directory.") /\ passed' = passed
          ELSE /\ pc' = "output"
               /\ passed' = passed \cup {"directory"}
               /\ outcome' = outcome
    /\ UNCHANGED <<envvars, output_path, devices, selected_device, files_to_process,
                   loopvars, devvars, outvars, histvars, kvars, lvars, svars>>

\* "Determine output file path"
DetermineOutput ==
    /\ pc = "output"
    /\ \E ex \in ExistingSets :
          /\ existing' = ex
          /\ IF args.output # ""
             THEN LET p == IF IsAbs(args.output) THEN args.output
                           ELSE Join(Cwd, args.output)
                  IN  IF p \in ex
                      THEN Exit("Error: The file already exists.")
                           /\ UNCHANGED <<output_path, passed>>
                      ELSE /\ output_path' = p
                           /\ passed' = passed \cup {"output"}
                           /\ pc' = "writable"
                           /\ outcome' = outcome
             ELSE IF DefaultOutput \notin ex
             THEN /\ output_path' = DefaultOutput
                  /\ passed' = passed \cup {"output"}
                  /\ pc' = "writable"
                  /\ outcome' = outcome
             ELSE LET u == generate_unique_filename("output", Cwd, ex)
                  IN  IF u = ""
                      THEN Exit("FileExistsError: All possible output filenames (up to 999) are taken.")
                           /\ UNCHANGED <<output_path, passed>>
                      ELSE /\ output_path' = u
                           /\ passed' = passed \cup {"output"}
                           /\ pc' = "writable"
                           /\ outcome' = outcome
    /\ UNCHANGED <<args, platforms, tree, devices, selected_device, files_to_process,
                   loopvars, devvars, outvars, histvars, kvars, lvars, svars>>

\* the writability check with its "return" missing: the error is printed and
\* the run goes on (a wrong variant, for testing the exit-fast rule)
CheckWritable_NoReturn ==
    /\ pc = "writable"
    /\ \E writable \in BOOLEAN :
          IF ~writable
          THEN /\ pc' = "opencl"
               /\ passed' = passed
               /\ outcome' = "Error: No write permission for directory "
                                 \o Dirname(output_path)
          ELSE /\ pc' = "opencl"
               /\ passed' = passed \cup {"writable"}
               /\ outcome' = outcome
    /\ UNCHANGED <<envvars, output_path, devices, selected_device, files_to_process,
                   loopvars, devvars, outvars, histvars, kvars, lvars, svars>>

\* os.access(os.path.dirname(output_path), os.W_OK)
CheckWritable ==
    /\ pc = "writable"
    /\ \E writable \in BOOLEAN :
          IF ~writable
          THEN Exit("Error: No write permission for directory " \o Dirname(output_path))
               /\ passed' = passed
          ELSE /\ pc' = "opencl"
               /\ passed' = passed \cup {"writable"}
               /\ outcome' = outcome
    /\ UNCHANGED <<envvars, output_path, devices, selected_device, files_to_process,
                   loopvars, devvars, outvars, histvars, kvars, lvars, svars>>

\* "Initialize OpenCL": platforms, and the devices of platforms[0]
InitOpenCL ==
    /\ pc = "opencl"
    /\ IF Len(platforms) = 0
       THEN Exit("No OpenCL platforms found.") /\ devices' = devices
       ELSE IF Len(GetDevices(platforms, 1)) = 0
       THEN Exit("No OpenCL devices found.") /\ devices' = GetDevices(platforms, 1)
       ELSE /\ devices' = GetDevices(platforms, 1)
            /\ pc' = "select"
            /\ outcome' = outcome
    /\ UNCHANGED <<envvars, passed, output_path, selected_device, files_to_process,
                   loopvars, devvars, outvars, histvars, kvars, lvars, svars>>

\* the override index or select_best_device
SelectDevice ==
    /\ pc = "select"
    /\ LET d == ResolveDevice(devices, args.device)
       IN  IF d = <<>>
           THEN Exit("Error: Device ID is out of range.")
                /\ UNCHANGED <<selected_device, passed>>
           ELSE /\ selected_device' = d
                /\ passed' = passed \cup {"device"}
                /\ pc' = "context"
                /\ outcome' = outcome
    /\ UNCHANGED <<envvars, output_path, devices, files_to_process,
                   loopvars, devvars, outvars, histvars, kvars, lvars, svars>>

\* cl.Context, cl.CommandQueue, cl.Program(...).build(): an error here is not
\* caught
BuildContext ==
    /\ pc = "context"
    /\ \E ok \in BOOLEAN :
          IF ok THEN pc' = "scan" /\ outcome' = outcome
          ELSE Exit("pyopencl error (uncaught)")
    /\ UNCHANGED <<envvars, setupvars, loopvars, devvars, outvars, histvars, kvars, lvars,
                   svars>>

\* files_to_process = scan_directory(args.path, args.recursive), and the entry
\* of perform_hashing
Scan ==
    /\ pc = "scan"
    /\ \E t \in Trees :
          /\ tree' = t
          /\ files_to_process' = scan_directory(t, args.path, args.recursive)
    /\ hashes' = <<>>
    /\ fidx' = 0
    /\ pc' = "loop"
    /\ UNCHANGED <<args, platforms, existing, passed, output_path, devices,
                   selected_device, file_data, devvars, outvars, outcome, histvars,
                   kvars, lvars, svars>>

\* NextFile with a loop that ends one file early
NextFile_SkipsLastFile ==
    /\ pc = "loop"
    /\ IF fidx < Len(files_to_process) - 1
       THEN fidx' = fidx + 1 /\ pc' = "read" /\ regions' = regions
       ELSE fidx' = fidx /\ pc' = "write" /\ regions' = {}
    /\ UNCHANGED <<envvars, setupvars, file_data, hashes, input_buffer, output_buffer,
                   lengths_buffer, queue, output_data, outvars, outcome, histvars,
                   kvars, lvars, svars>>

\* for file_path in file_paths / return hashes: the return ends the frame
\* and with it the last references to the buffers of the last file
NextFile ==
    /\ pc = "loop"
    /\ IF fidx < Len(files_to_process)
       THEN fidx' = fidx + 1 /\ pc' = "read" /\ regions' = regions
       ELSE fidx' = fidx /\ pc' = "write" /\ regions' = {}
    /\ UNCHANGED <<envvars, setupvars, file_data, hashes, input_buffer, output_buffer,
                   lengths_buffer, queue, output_data, outvars, outcome, histvars,
                   kvars, lvars, svars>>

\* with open(file_path, 'rb') as f: file_data = f.read()
ReadFile ==
    /\ pc = "read"
    /\ \E ok \in BOOLEAN :
          IF ok
          THEN /\ file_data' = FileData(args.path, tree, CurrentFile, 1)
               /\ nRead' = nRead + 1
               /\ pc' = "allocInput"
               /\ failed' = failed
          ELSE Raise("open") /\ UNCHANGED <<file_data, nRead>>
    /\ UNCHANGED <<envvars, setupvars, fidx, hashes, devvars, outvars, outcome,
                   nLaunched, kvars, lvars, svars>>

\* AllocInput with a region that still holds the bytes of the file before
AllocInput_KeepsEarlierBytes ==
    /\ pc = "allocInput"
    /\ \E ok \in BOOLEAN :
          IF ok
          THEN /\ input_buffer' = [live |-> TRUE, written |-> TRUE,
                                   data |-> input_buffer.data \o file_data]
               /\ regions' = regions \cup {Region("input")}
               /\ pc' = "dropInput"
               /\ failed' = failed
          ELSE Raise("input buffer") /\ UNCHANGED <<input_buffer, regions>>
    /\ UNCHANGED <<envvars, setupvars, loopvars, output_buffer, lengths_buffer, queue,
                   output_data, outvars, outcome, nRead, nLaunched, kvars, lvars,
                   svars>>

\* input_buffer = cl.Buffer(context, READ_ONLY | COPY_HOST_PTR, hostbuf=file_data)
AllocInput ==
    /\ pc = "allocInput"
    /\ \E ok \in BOOLEAN :
          IF ok
          THEN /\ input_buffer' = [live |-> TRUE, written |-> TRUE, data |-> file_data]
               /\ regions' = regions \cup {Region("input")}
               /\ pc' = "dropInput"
               /\ failed' = failed
          ELSE Raise("input buffer") /\ UNCHANGED <<input_buffer, regions>>
    /\ UNCHANGED <<envvars, setupvars, loopvars, output_buffer, lengths_buffer, queue,
                   output_data, outvars, outcome, nRead, nLaunched, kvars, lvars,
                   svars>>

\* output_buffer = cl.Buffer(context, WRITE_ONLY, sha1_size)
AllocOutput ==
    /\ pc = "allocOutput"
    /\ \E ok \in BOOLEAN :
          IF ok
          THEN /\ output_buffer' = [live |-> TRUE, written |-> FALSE, data |-> <<>>]
               /\ regions' = regions \cup {Region("output")}
               /\ pc' = "dropOutput"
               /\ failed' = failed
          ELSE Raise("output buffer") /\ UNCHANGED <<output_buffer, regions>>
    /\ UNCHANGED <<envvars, setupvars, loopvars, input_buffer, lengths_buffer, queue,
                   output_data, outvars, outcome, nRead, nLaunched, kvars, lvars,
                   svars>>

\* lengths = np.array([len(file_data)], dtype=np.int32) and its buffer
AllocLengths ==
    /\ pc = "allocLengths"
    /\ \E ok \in BOOLEAN :
          IF ok
          THEN /\ lengths_buffer' = [live |-> TRUE, written |-> TRUE,
                                     data |-> <<Int32Of(Len(file_data))>>]
               /\ regions' = regions \cup {Region("lengths")}
               /\ pc' = "dropLengths"
               /\ failed' = failed
          ELSE Raise("lengths buffer") /\ UNCHANGED <<lengths_buffer, regions>>
    /\ UNCHANGED <<envvars, setupvars, loopvars, input_buffer, output_buffer, queue,
                   output_data, outvars, outcome, nRead, nLaunched, kvars, lvars,
                   svars>>

\* the assignment of a new buffer to a local name drops the last reference
\* to the buffer the name held for the file before, which releases its region
DropPrevious(name, next) ==
    /\ regions' = regions \ {<<fidx - 1, name>>}
    /\ pc' = next
    /\ UNCHANGED <<envvars, setupvars, loopvars, input_buffer, output_buffer,
                   lengths_buffer, queue, output_data, outvars, outcome, histvars,
                   kvars, lvars, svars>>

DropInput == pc = "dropInput" /\ DropPrevious("input", "allocOutput")

DropOutput == pc = "dropOutput" /\ DropPrevious("output", "allocLengths")

DropLengths == pc = "dropLengths" /\ DropPrevious("lengths", "enqueue")

\* set_args and cl.enqueue_nd_range_kernel(queue, sha1_kernel, (1,), None)
EnqueueKernel ==
    /\ pc = "enqueue"
    /\ \E ok \in BOOLEAN :
          IF ok
          THEN /\ queue' = Append(queue, "kernel")
               /\ nLaunched' = nLaunched + 1
               /\ pc' = "copy"
               /\ failed' = failed
          ELSE Raise("kernel launch") /\ UNCHANGED <<queue, nLaunched>>
    /\ UNCHANGED <<envvars, setupvars, loopvars, input_buffer, output_buffer,
                   lengths_buffer, output_data, regions, outvars, outcome, nRead,
                   kvars, lvars, svars>>

\* output_data = np.empty(...); cl.enqueue_copy(queue, output_data, output_buffer)
EnqueueCopy ==
    /\ pc = "copy"
    /\ output_data' = <<>>
    /\ queue' = Append(queue, "copy")
    /\ pc' = "wait"
    /\ UNCHANGED <<envvars, setupvars, loopvars, input_buffer, output_buffer,
                   lengths_buffer, regions, outvars, outcome, histvars, kvars, lvars,
                   svars>>

\* the device takes the next command of the in-order queue
DeviceExecute ==
    /\ pc \in {"copy", "wait"}
    /\ queue # <<>>
    /\ Head(queue) # "hung"
    /\ IF Head(queue) = "kernel"
       THEN /\ output_buffer' = [output_buffer EXCEPT
                                    !.written = TRUE,
                                    !.data = RunKernel(input_buffer.data,
                                                       lengths_buffer.data)]
            /\ output_data' = output_data
       ELSE /\ output_data' = output_buffer.data
            /\ output_buffer' = output_buffer
    /\ queue' = Tail(queue)
    /\ UNCHANGED <<pc, envvars, setupvars, loopvars, input_buffer, lengths_buffer,
                   regions, outvars, outcome, histvars, kvars, lvars, svars>>

\* WaitRecord without the wait: the host goes on while commands are queued
WaitRecord_NoWait ==
    /\ pc = "wait"
    /\ hashes' = Append(hashes, <<CurrentFile, HashHex(output_data)>>)
    /\ pc' = "loop"
    /\ UNCHANGED <<envvars, setupvars, fidx, file_data, devvars, outvars, outcome,
                   histvars, kvars, lvars, svars>>

\* .wait() returns; hash_hex; hashes.append((file_path, hash_hex))
WaitRecord ==
    /\ pc = "wait"
    /\ queue = <<>>
    /\ hashes' = Append(hashes, <<CurrentFile, HashHex(output_data)>>)
    /\ pc' = "loop"
    /\ UNCHANGED <<envvars, setupvars, fidx, file_data, devvars, outvars, outcome,
                   histvars, kvars, lvars, svars>>

\* "Write results to output file"
WriteReport ==
    /\ pc = "write"
    /\ \E ok \in BOOLEAN :
          IF ok
          THEN /\ report' = [written |-> TRUE, path |-> output_path,
                             rows |-> <<ReportHeader>>
                                      \o [i \in 1..Len(hashes) |-> ReportRow(hashes[i])]]
               /\ Exit("Hashes successfully written to " \o output_path)
               /\ failed' = failed
          ELSE /\ pc' = "except"
               /\ failed' = [path |-> output_path, stage |-> "report"]
               /\ UNCHANGED <<report, outcome>>
    /\ UNCHANGED <<envvars, setupvars, loopvars, devvars, listing, nRead, nLaunched,
                   kvars, lvars, svars>>

\* except Exception as e: print(f"Error during hashing: {e}"); the end of the
\* clause deletes e, its traceback and the frame of perform_hashing
HandleException ==
    /\ pc = "except"
    /\ Exit("Error during hashing: " \o failed.stage)
    /\ regions' = {}
    /\ UNCHANGED <<envvars, setupvars, loopvars, input_buffer, output_buffer,
                   lengths_buffer, queue, output_data, outvars, histvars, kvars, lvars,
                   svars>>

Next ==
    \/ ListDevices
    \/ CheckPath
    \/ DetermineOutput
    \/ CheckWritable
    \/ InitOpenCL
    \/ SelectDevice
    \/ BuildContext
    \/ Scan
    \/ NextFile
    \/ ReadFile
    \/ AllocInput
    \/ DropInput
    \/ AllocOutput
    \/ DropOutput
    \/ AllocLengths
    \/ DropLengths
    \/ EnqueueKernel
    \/ EnqueueCopy
    \/ DeviceExecute
    \/ WaitRecord
    \/ WriteReport
    \/ HandleException

Spec == Init /\ [][Next]_vars

----------------------------------------------------------------------------
(***************************************************************************)
(* The device specification: the runs "--list" and "path [-d i]" over the  *)
(* platform lists of Catalogs, the latter from the OpenCL initialisation   *)
(* (the checks before it have passed) to the selection.                    *)
(***************************************************************************)
DeviceInit ==
    /\ args \in DeviceArgs
    /\ platforms \in Catalogs
    /\ pc = IF args.list THEN "start" ELSE "opencl"
    /\ passed = IF args.list THEN {} ELSE {"directory", "output", "writable"}
    /\ output_path = IF args.list THEN "" ELSE DefaultOutput
    /\ MainLocalsInit
    /\ KernelOff
    /\ LengthOff
    /\ SugoiOff

DeviceNext == ListDevices \/ InitOpenCL \/ SelectDevice

DeviceSpec == DeviceInit /\ [][DeviceNext]_vars

(***************************************************************************)
(* The scan specification: scan_directory applied to each tree of          *)
(* ScanTrees, in both modes.                                               *)
(***************************************************************************)
ScanInit ==
    /\ args \in ScanArgs
    /\ platforms = <<>>
    /\ tree \in ScanTrees
    /\ pc = "scanTree"
    /\ passed = {"directory", "output", "writable"}
    /\ output_path = DefaultOutput
    /\ existing = {}
    /\ devices = <<>>
    /\ selected_device = <<>>
    /\ files_to_process = <<>>
    /\ fidx = 0
    /\ file_data = <<>>
    /\ input_buffer = NoBuffer
    /\ output_buffer = NoBuffer
    /\ lengths_buffer = NoBuffer
    /\ regions = {}
    /\ queue = <<>>
    /\ output_data = <<>>
    /\ hashes = <<>>
    /\ listing = <<>>
    /\ report = NoReport
    /\ outcome = ""
    /\ nRead = 0
    /\ nLaunched = 0
    /\ failed = NoFailure
    /\ KernelOff
    /\ LengthOff
    /\ SugoiOff

\* files_to_process = scan_directory(args.path, args.recursive)
ScanTree ==
    /\ pc = "scanTree"
    /\ files_to_process' = scan_directory(tree, args.path, args.recursive)
    /\ pc' = "scanned"
    /\ UNCHANGED <<envvars, passed, output_path, devices, selected_device,
                   loopvars, devvars, outvars, outcome, histvars, kvars, lvars,
                   svars>>

ScanNext == ScanTree

ScanSpec == ScanInit /\ [][ScanNext]_vars

(***************************************************************************)
(* The batch specification: the run from the directory scan on, with a     *)
(* device that may hang in a kernel, and with the fairness of a host that  *)
(* keeps executing its statements and of a device that executes the        *)
(* commands of its queue.                                                  *)
(***************************************************************************)
BatchPlatforms == << <<Kind("Intel", 2)>> >>

BatchInit ==
    /\ args \in ScanArgs
    /\ platforms = BatchPlatforms
    /\ pc = "scan"
    /\ passed = {"directory", "output", "writable", "device"}
    /\ output_path = DefaultOutput
    /\ existing = {}
    /\ tree = <<>>
    /\ devices = GetDevices(BatchPlatforms, 1)
    /\ selected_device = ResolveDevice(GetDevices(BatchPlatforms, 1), <<>>)
    /\ files_to_process = <<>>
    /\ fidx = 0
    /\ file_data = <<>>
    /\ input_buffer = NoBuffer
    /\ output_buffer = NoBuffer
    /\ lengths_buffer = NoBuffer
    /\ regions = {}
    /\ queue = <<>>
    /\ output_data = <<>>
    /\ hashes = <<>>
    /\ listing = <<>>
    /\ report = NoReport
    /\ outcome = ""
    /\ nRead = 0
    /\ nLaunched = 0
    /\ failed = NoFailure
    /\ KernelOff
    /\ LengthOff
    /\ SugoiOff

\* the device starts the kernel at the head of the queue and never signals
\* its completion
DeviceHang ==
    /\ pc \in {"copy", "wait"}
    /\ queue # <<>>
    /\ Head(queue) = "kernel"
    /\ queue' = <<"hung">> \o Tail(queue)
    /\ UNCHANGED <<pc, envvars, setupvars, loopvars, input_buffer, output_buffer,
                   lengths_buffer, output_data, regions, outvars, outcome, histvars,
                   kvars, lvars, svars>>

\* the statements of the host
BatchHost ==
    \/ Scan
    \/ NextFile
    \/ ReadFile
    \/ AllocInput
    \/ DropInput
    \/ AllocOutput
    \/ DropOutput
    \/ AllocLengths
    \/ DropLengths
    \/ EnqueueKernel
    \/ EnqueueCopy
    \/ WaitRecord
    \/ WriteReport
    \/ HandleException

BatchNext == BatchHost \/ DeviceExecute \/ DeviceHang

BatchSpec ==
    /\ BatchInit
    /\ [][BatchNext]_vars
    /\ WF_vars(BatchHost)
    /\ WF_vars(DeviceExecute)

(***************************************************************************)
(* sugoi.py: translate_line(line, url) and the call of                     *)
(* send_request_to_server(url, data, max_retries) it makes.                *)
(***************************************************************************)
\* def send_request_to_server(url, data, max_retries=3)
DefaultMaxRetries == 3

\* the decoded JSON bodies of the server's answers: lists of translations
Bodies == {<<>>, <<"x">>, <<"y", "z">>}

\* what one requests.post can come to: it raises, or it returns a response
\* with a status code and a body that response.json() decodes or not
Response(st, dec, b) == [raises |-> FALSE, status |-> st, decodes |-> dec, body |-> b]

Outcomes ==
    {[raises |-> TRUE, status |-> 0, decodes |-> FALSE, body |-> <<>>]}
    \cup {Response(500, FALSE, <<>>), Response(200, FALSE, <<>>)}
    \cup {Response(200, TRUE, b) : b \in Bodies}

Lines == {"a", "b"}

SugoiInit ==
    /\ spc = "while"
    /\ line \in Lines
    /\ max_retries \in 0..DefaultMaxRetries
    /\ attempt = 0
    /\ posts = <<>>
    /\ translated_line = <<>>
    /\ raised = ""
    /\ returned = <<>>
    /\ KernelOff
    /\ LengthOff
    /\ MainOff

\* while attempt < max_retries: ... / raise Exception("Max retries exceeded")
WhileTest ==
    /\ spc = "while"
    /\ IF attempt < max_retries
       THEN spc' = "post" /\ raised' = raised
       ELSE spc' = "except" /\ raised' = "Max retries exceeded"
    /\ UNCHANGED <<line, max_retries, attempt, posts, translated_line, returned,
                   kvars, lvars, mvars>>

\* the body of the loop: requests.post; with status 200, return
\* response.json(); with another status, or when post or json() raises,
\* print, sleep and attempt += 1
Post ==
    /\ spc = "post"
    /\ \E o \in Outcomes :
          /\ posts' = Append(posts, o)
          /\ IF ~o.raises /\ o.status = 200 /\ o.decodes
             THEN /\ translated_line' = <<o.body>>
                  /\ attempt' = attempt
                  /\ spc' = "index"
             ELSE /\ translated_line' = translated_line
                  /\ attempt' = attempt + 1
                  /\ spc' = "while"
    /\ UNCHANGED <<line, max_retries, raised, returned, kvars, lvars, mvars>>

\* return (line, translated_line[0]), inside translate_line's try
IndexResult ==
    /\ spc = "index"
    /\ IF Len(translated_line[1]) > 0
       THEN /\ returned' = <<line, translated_line[1][1]>>
            /\ spc' = "done"
            /\ raised' = raised
       ELSE /\ returned' = returned
            /\ spc' = "except"
            /\ raised' = "list index out of range"
    /\ UNCHANGED <<line, max_retries, attempt, posts, translated_line,
                   kvars, lvars, mvars>>

\* except Exception as e: print(...); return (line, "Translation failed")
TranslationFailed ==
    /\ spc = "except"
    /\ returned' = <<line, "Translation failed">>
    /\ spc' = "done"
    /\ UNCHANGED <<line, max_retries, attempt, posts, translated_line, raised,
                   kvars, lvars, mvars>>

SugoiNext == WhileTest \/ Post \/ IndexResult \/ TranslationFailed

SugoiSpec == SugoiInit /\ [][SugoiNext]_vars

----------------------------------------------------------------------------
(***************************************************************************)
(* Properties of the kernel (KernelSpec).                                  *)
(***************************************************************************)
\* C1: for every message, the 20 bytes the kernel writes to the output are
\* the FIPS 180 SHA-1 digest of the message's bytes.
C1_KernelOutputIsFipsDigest ==
    kpc = "done" => kOutput = FipsSha1(kInput)

\* C3: the kernel processes floor(L/64)+1 blocks of 64 bytes; in the padded
\* stream byte L is 0x80, every later byte is zero except the last 8 bytes of
\* the last block, and these hold the bit length 8*L big-endian.
C3_PaddedStream ==
    kpc = "done" =>
        /\ chunk_idx = (kLength \div 64) + 1
        /\ Len(stream) = 64 * ((kLength \div 64) + 1)
        /\ \A p \in 0..(kLength - 1) : stream[p + 1] = kInput[p + 1]
        /\ stream[kLength + 1] = 128
        /\ \A p \in (kLength + 1)..(Len(stream) - 9) : stream[p + 1] = 0
        /\ SubSeq(stream, Len(stream) - 7, Len(stream)) = FipsLengthField(kLength)

\* the position in the padded stream of the first byte of the length field
LengthFieldStart == Len(stream) - 8

\* C17: for every message length L, the message bytes (positions below L)
\* and the 0x80 marker at position L reach the message schedule unchanged:
\* the 8 bytes of the length field, bytes 56..63 of the last block, lie
\* above position L for every residue of L mod 64; and the output is the
\* kernel's 20 bytes.
C17_MessageAndMarkerIntact ==
    kpc = "done" =>
        /\ \A p \in 0..(kLength - 1) : stream[p + 1] = kInput[p + 1]
        /\ stream[kLength + 1] = 128
        /\ LengthFieldStart > kLength
        /\ Len(kOutput) = 20

\* C17 holds for the lengths whose residue mod 64 is below 56
C17_IntactBelowResidue56 ==
    (kpc = "done" /\ kLength % 64 < 56) =>
        /\ \A p \in 0..(kLength - 1) : stream[p + 1] = kInput[p + 1]
        /\ stream[kLength + 1] = 128
        /\ LengthFieldStart > kLength
        /\ Len(kOutput) = 20

----------------------------------------------------------------------------
(***************************************************************************)
(* Properties of the run (Spec).                                           *)
(***************************************************************************)
\* the bytes of the file a recorded pair names
HashedContent(pair) == FileData(args.path, tree, pair[1], 1)

----------------------------------------------------------------------------
(***************************************************************************)
(* Properties of the length field (LengthSpec).                            *)
(***************************************************************************)
\* C4: for every file length L the eight bytes written into the last block
\* hold 8*L as a 64-bit big-endian value, also for L >= 2^29.
C4_LengthFieldIs64Bit ==
    lpc = "done" => field = FipsLengthField(fileLen)

----------------------------------------------------------------------------
(***************************************************************************)
(* Properties of the device listing and selection (DeviceSpec).            *)
(***************************************************************************)
\* the catalog: the devices of all platforms, flattened, in listing order
DeviceCatalog(plats) ==
    LET l == list_opencl_devices(plats)
    IN  [i \in 1..Len(l) |-> l[i].dev]

\* the selection is over: a device was selected, or the run ended on the way
SelectionOver == ~args.list /\ pc \in {"context", "done"}

\* the selection policy of C5 over the device list cat
SelectionPolicy(cat) ==
    /\ (pc = "context" /\ args.device = <<>>)
          => \A j \in 1..Len(cat) :
                cat[j].global_mem_size <= selected_device[1].global_mem_size
    /\ (SelectionOver /\ args.device # <<>> /\ Len(cat) > 0)
          => IF args.device[1] >= 0 /\ args.device[1] < Len(cat)
             THEN /\ pc = "context"
                  /\ selected_device = <<cat[args.device[1] + 1]>>
             ELSE /\ pc = "done"
                  /\ outcome = "Error: Device ID is out of range."
                  /\ selected_device = <<>>

\* C5: with no override the selected device has the largest memory of the
\* catalog; an in-range override index i selects catalog entry i; an
\* out-of-range index selects nothing and ends the run with an error.
C5_SelectionOverCatalog == SelectionPolicy(DeviceCatalog(platforms))

\* the same policy over the list main selects from, the devices of the first
\* platform
C5_SelectionOverFirstPlatform ==
    Len(platforms) > 0 => SelectionPolicy(GetDevices(platforms, 1))

\* position of a vendor in the priority order nvidia, amd, intel, others
VendorRank(d) ==
    IF StartsWith(Lower(d.vendor), "nvidia") THEN 0
    ELSE IF StartsWith(Lower(d.vendor), "amd") THEN 1
    ELSE IF StartsWith(Lower(d.vendor), "intel") THEN 2
    ELSE 3

\* C6: among the devices tied on the largest memory the default selection
\* takes one of the highest vendor priority (nvidia, then amd, then intel),
\* and among those equal on every key the first of the list.
C6_VendorPriority ==
    (pc = "context" /\ args.device = <<>>) =>
        \A j \in 1..Len(devices) :
            devices[j].global_mem_size = selected_device[1].global_mem_size
               => /\ VendorRank(selected_device[1]) <= VendorRank(devices[j])
                  /\ VendorRank(selected_device[1]) = VendorRank(devices[j])
                        => selected_device[1].idx <= devices[j].idx

\* C7: every device the listing prints with "Device ID: i" is the device the
\* override index i selects, and no two listed devices share an ID.
C7_ListedIdSelectsDevice ==
    outcome = "listed" =>
        /\ \A i \in 1..Len(listing) :
              /\ Len(platforms) > 0
              /\ ResolveDevice(GetDevices(platforms, 1), <<listing[i].id>>)
                    = <<listing[i].dev>>
        /\ \A i, j \in 1..Len(listing) : listing[i].id = listing[j].id => i = j

----------------------------------------------------------------------------
(***************************************************************************)
(* Properties of the run, continued (Spec).                                *)
(***************************************************************************)
\* the validations that precede hashing
AllChecks == {"directory", "output", "writable", "device"}

\* C8: no file is read and no kernel is launched before the directory, the
\* output path, its directory's writability and the device have been
\* validated; a run that a validation ends has read no file, launched no
\* kernel and written no report.
C8_ExitFast ==
    /\ (nRead > 0 \/ nLaunched > 0) => passed = AllChecks
    /\ (pc = "done" /\ ~args.list /\ passed # AllChecks)
          => /\ nRead = 0
             /\ nLaunched = 0
             /\ ~report.written

\* the device validation has ended a run whose other validations had passed
C8_EndedByDeviceCheck ==
    /\ pc = "done"
    /\ passed = {"directory", "output", "writable"}
    /\ outcome = "Error: Device ID is out of range."
    /\ nRead = 0

\* C9: when the processing of one file fails, the run still hashes every
\* other file and writes their digests to the report.
C9_PartialFailureIsolation ==
    (pc = "done" /\ failed # NoFailure /\ failed.stage # "report") =>
        /\ report.written
        /\ \A i \in 1..Len(files_to_process) :
              files_to_process[i] # failed.path
                 => \E r \in 2..Len(report.rows) :
                       report.rows[r][1] = files_to_process[i]

\* the characters of s are all hexadecimal digits in lower case
IsLowerHex(s) ==
    \A k \in 1..Len(s) : \E x \in 1..16 : CharAt(s, k) = CharAt(HexDigits, x)

\* C10: a written report is the header row followed by one row per hashed
\* file, in order: the path that was hashed and a HASH of 40 characters, each
\* in 0-9 or a-f.
C10_ReportRows ==
    report.written =>
        /\ report.rows[1] = ReportHeader
        /\ Len(report.rows) = Len(files_to_process) + 1
        /\ Len(hashes) = Len(files_to_process)
        /\ \A i \in 1..Len(files_to_process) :
              /\ report.rows[i + 1][1] = files_to_process[i]
              /\ report.rows[i + 1][4] = hashes[i][2]
              /\ Len(report.rows[i + 1][4]) = 40
              /\ IsLowerHex(report.rows[i + 1][4])
        /\ \A i, j \in 2..Len(report.rows) :
              report.rows[i][1] = report.rows[j][1] => i = j

\* a report of three data rows has been written
C10_ReportOfThreeFiles ==
    /\ report.written
    /\ Len(report.rows) = 4
    /\ nLaunched = 3

----------------------------------------------------------------------------
(***************************************************************************)
(* Properties of the output path (Spec).                                   *)
(***************************************************************************)
\* the alternate output paths, by number
OutputCandidate(i) == CandidatePath("output", Cwd, i)

\* "Determine output file path" is over
OutputDetermined == "directory" \in passed /\ pc # "output"

\* C11: when the default output path exists, the output path is the
\* lowest-numbered candidate output_000..output_999 that does not exist; the
\* output path never exists when it is chosen; when all 1000 candidates
\* exist the run ends with an error before any hashing; and the report is
\* never written over a file that existed.
C11_UniqueOutputPath ==
    /\ "output" \in passed => output_path \notin existing
    /\ ("output" \in passed /\ args.output = "" /\ DefaultOutput \in existing)
          => \E i \in 0..(NumCandidates - 1) :
                /\ output_path = OutputCandidate(i)
                /\ \A j \in 0..(i - 1) : OutputCandidate(j) \in existing
    /\ (/\ OutputDetermined
        /\ args.output = ""
        /\ DefaultOutput \in existing
        /\ \A i \in 0..(NumCandidates - 1) : OutputCandidate(i) \in existing)
          => /\ pc = "done"
             /\ "output" \notin passed
             /\ nRead = 0
             /\ nLaunched = 0
             /\ ~report.written
    /\ report.written => report.path \notin existing

\* the report has been written to the third candidate, the default path and
\* the first two candidates being taken
C11_ReportAtThirdCandidate ==
    /\ report.written
    /\ report.path = OutputCandidate(2)
    /\ {DefaultOutput, OutputCandidate(0), OutputCandidate(1)} \subseteq existing


(***************************************************************************)
(* C12: the directory scan                                                 *)
(***************************************************************************)
\* the paths of the readable regular files directly in a directory
RegularReadableAt(root, entries) ==
    {Join(root, entries[i].name) :
        i \in {j \in 1..Len(entries) : entries[j].kind = "file" /\ entries[j].readable}}

\* the paths of the readable regular files at every depth below root that
\* a listing can reach
RECURSIVE RegularReadableBelow(_, _)
RegularReadableBelow(root, entries) ==
    RegularReadableAt(root, entries) \cup
    UNION {RegularReadableBelow(Join(root, entries[i].name), entries[i].children) :
              i \in {j \in 1..Len(entries) : entries[j].kind = "dir" /\ entries[j].readable}}

ScannedPaths == {files_to_process[i] : i \in 1..Len(files_to_process)}

\* C12: without the recursive flag the scan returns exactly the readable
\* regular files that are immediate children of the directory; with it,
\* exactly the readable regular files at every depth; no unreadable file
\* and no directory is in the result.
C12_ScanReturnsReadableRegularFiles ==
    pc = "scanned" =>
        /\ ScannedPaths = IF args.recursive
                          THEN RegularReadableBelow(args.path, tree)
                          ELSE RegularReadableAt(args.path, tree)
        /\ Cardinality(ScannedPaths) = Len(files_to_process)

\* the non-recursive half of C12, which the code meets
C12_FlatScan ==
    (pc = "scanned" /\ ~args.recursive) =>
        /\ ScannedPaths = RegularReadableAt(args.path, tree)
        /\ Cardinality(ScannedPaths) = Len(files_to_process)

\* a recursive scan over a tree without special files returns the readable
\* regular files of every depth
RECURSIVE HasSpecial(_)
HasSpecial(entries) ==
    \E i \in 1..Len(entries) :
        entries[i].kind = "special" \/ HasSpecial(entries[i].children)

C12_DeepScanOfRegularTree ==
    (pc = "scanned" /\ args.recursive /\ ~HasSpecial(tree)) =>
        ScannedPaths = RegularReadableBelow(args.path, tree)


----------------------------------------------------------------------------
(***************************************************************************)
(* Properties of the hashing loop (Spec).                                  *)
(***************************************************************************)
\* C13: a recorded digest depends only on the bytes of its file: two files
\* of one batch with identical content have identical digests, and every
\* digest is the kernel's result for the file's own bytes and length,
\* whatever device was selected, whatever the position of the file in the
\* batch and whatever file was hashed before it.
C13_DigestDependsOnContentOnly ==
    /\ \A i, j \in 1..Len(hashes) :
          HashedContent(hashes[i]) = HashedContent(hashes[j])
             => hashes[i][2] = hashes[j][2]
    /\ \A i \in 1..Len(hashes) :
          hashes[i][2] = HashHex(RunKernel(HashedContent(hashes[i]),
                                           <<Int32Of(Len(HashedContent(hashes[i])))>>))

\* two files of equal content hashed first and fourth in one batch, after
\* different files
C13_SameContentTwice ==
    /\ Len(hashes) = 4
    /\ hashes[1][1] # hashes[4][1]
    /\ HashedContent(hashes[1]) = HashedContent(hashes[4])
    /\ HashedContent(hashes[3]) # HashedContent(hashes[1])
    /\ HashedContent(hashes[3]) # <<>>


\* the kernel launches that the device has not yet executed
KernelsInFlight == {i \in 1..Len(queue) : queue[i] = "kernel"}

\* C14: at most one kernel launch is in flight; the kernel of a file is
\* enqueued only when the kernel of every earlier file has completed and
\* its 20 bytes have been copied back and recorded; the digest recorded for
\* a file is the output its own kernel wrote.
C14_OneKernelInFlight ==
    /\ Cardinality(KernelsInFlight) <= 1
    /\ nLaunched - Len(hashes) \in {0, 1}
    /\ pc = "enqueue" => /\ queue = <<>>
                         /\ nLaunched = fidx - 1
                         /\ Len(hashes) = fidx - 1
    /\ (pc = "wait" /\ queue = <<>>) =>
          /\ input_buffer.data = file_data
          /\ output_buffer.written
          /\ output_buffer.data = RunKernel(input_buffer.data, lengths_buffer.data)
          /\ output_data = output_buffer.data
    /\ \A i \in 1..Len(hashes) : hashes[i][1] = files_to_process[i]

\* C14, the recording step: the pair appended for the current file holds the
\* bytes that the kernel of this file wrote, after the queue has drained
C14_RecordsOwnKernelOutput ==
    [][(Len(hashes') = Len(hashes) + 1) =>
          /\ queue = <<>>
          /\ output_buffer.written
          /\ hashes' = Append(hashes,
                          <<files_to_process[fidx],
                            HashHex(RunKernel(file_data, <<Int32Of(Len(file_data))>>))>>)]_vars

\* the kernel of the second file is in flight after the first file's digest
\* was recorded
C14_SecondKernelInFlight ==
    /\ fidx = 2
    /\ Len(hashes) = 1
    /\ queue = <<"kernel", "copy">>
    /\ pc = "wait"


\* the regions of the files before the current one that are still live
EarlierRegions == {r \in regions : r[1] < fidx}

\* C15: each file gets three freshly allocated device regions; all three
\* are released before the regions of the next file are allocated and
\* before perform_hashing returns; at most three device buffers are live
\* at any point.
C15_ThreeRegionsPerFile ==
    /\ Cardinality(regions) <= 3
    /\ pc \in {"allocInput", "allocOutput", "allocLengths"} => EarlierRegions = {}
    /\ pc \in {"write", "done"} => regions = {}
    /\ pc = "enqueue" => regions = {Region("input"), Region("output"), Region("lengths")}

\* what the code keeps of C15: the kernel of a file runs on three regions
\* created for this file, a region is dropped as soon as its name is bound
\* to the region of the next file, at most four regions are live, and none
\* is live when perform_hashing has returned or main's handler has ended
C15_RegionsDroppedOnRebinding ==
    /\ Cardinality(regions) <= 4
    /\ pc \in {"enqueue", "copy", "wait", "loop"}
          => regions \in {{}, {<<fidx, "input">>, <<fidx, "output">>, <<fidx, "lengths">>}}
    /\ pc \in {"write", "done"} => regions = {}
    /\ \A r \in regions : r[1] \in {fidx - 1, fidx}


----------------------------------------------------------------------------
(***************************************************************************)
(* Termination of the batch (BatchSpec).                                   *)
(***************************************************************************)
\* the device is in a kernel that does not complete
KernelHung == queue # <<>> /\ Head(queue) = "hung"

\* the run has ended with a report of one row for each enumerated file, in
\* enumeration order, after one read and one kernel launch for each
BatchCompleted ==
    /\ pc = "done"
    /\ report.written
    /\ nRead = Len(files_to_process)
    /\ nLaunched = Len(files_to_process)
    /\ Len(hashes) = Len(files_to_process)
    /\ \A i \in 1..Len(hashes) : hashes[i][1] = files_to_process[i]
    /\ Len(report.rows) = Len(files_to_process) + 1

\* C16: if every kernel wait returns and no error occurs, the batch over
\* the n enumerated files eventually terminates, having dispatched each
\* file exactly once, in enumeration order, with exactly n results; the
\* file being dispatched is always the next one in order; and once a kernel
\* wait does not return, the host stays in that wait for ever: no later
\* file is dispatched, the batch does not complete and no report is written.
C16_BatchTerminatesUnlessHung ==
    /\ <>(KernelHung \/ failed # NoFailure \/ BatchCompleted)
    /\ [](pc \in {"copy", "wait"} => (nLaunched = fidx /\ Len(hashes) = fidx - 1))
    /\ [](KernelHung => (pc \in {"copy", "wait"} /\ ~report.written))
    /\ [][KernelHung => /\ KernelHung'
                        /\ pc' \in {"copy", "wait"}
                        /\ fidx' = fidx
                        /\ nLaunched' = nLaunched
                        /\ hashes' = hashes
                        /\ report' = report]_vars

\* a batch of four files has completed
C16_FourFilesCompleted ==
    /\ BatchCompleted
    /\ Len(files_to_process) = 4

\* the kernel of the second of four files hangs
C16_HungAtSecondFile ==
    /\ KernelHung
    /\ fidx = 2
    /\ Len(files_to_process) = 4


----------------------------------------------------------------------------
(***************************************************************************)
(* Properties of the retry loop of sugoi.py (SugoiSpec).                   *)
(***************************************************************************)
\* the attempt was answered with status 200
Answered200(o) == ~o.raises /\ o.status = 200

\* the attempt was answered with status 200 and a body that json() decodes
Decoded200(o) == Answered200(o) /\ o.decodes

\* send_request_to_server has been left by its raise statement
MaxRetriesExceeded == raised = "Max retries exceeded"

\* C18: send_request_to_server makes at most max_retries POST attempts; it
\* returns the body of the first attempt answered with status 200 and
\* makes no attempt after it; an attempt that gets another status or
\* raises is followed by the next attempt; it raises only when all
\* max_retries attempts have failed, and translate_line then returns
\* (line, "Translation failed").
C18_RetryPolicy ==
    /\ Len(posts) <= max_retries
    /\ \A i \in 1..Len(posts) :
          Answered200(posts[i]) => /\ i = Len(posts)
                                   /\ translated_line = <<posts[i].body>>
    /\ \A i \in 1..Len(posts) :
          (~Answered200(posts[i]) /\ i = Len(posts) /\ i < max_retries)
             => spc \in {"while", "post"}
    /\ MaxRetriesExceeded => /\ Len(posts) = max_retries
                             /\ \A i \in 1..Len(posts) : ~Answered200(posts[i])
    /\ (Len(posts) = max_retries /\ spc \in {"except", "done"}
        /\ \A i \in 1..Len(posts) : ~Answered200(posts[i])) => MaxRetriesExceeded
    /\ (spc = "done" /\ MaxRetriesExceeded) => returned = <<line, "Translation failed">>

\* C18 with "answered with status 200 and a body that decodes as JSON" for
\* "answered with status 200": what the code does
C18_RetryPolicyOnDecodedAnswers ==
    /\ Len(posts) <= max_retries
    /\ \A i \in 1..Len(posts) :
          Decoded200(posts[i]) => /\ i = Len(posts)
                                  /\ translated_line = <<posts[i].body>>
    /\ \A i \in 1..Len(posts) :
          (~Decoded200(posts[i]) /\ i = Len(posts) /\ i < max_retries)
             => spc \in {"while", "post"}
    /\ MaxRetriesExceeded => /\ Len(posts) = max_retries
                             /\ \A i \in 1..Len(posts) : ~Decoded200(posts[i])
    /\ (Len(posts) = max_retries /\ spc \in {"except", "done"}
        /\ \A i \in 1..Len(posts) : ~Decoded200(posts[i])) => MaxRetriesExceeded
    /\ (spc = "done" /\ MaxRetriesExceeded) => returned = <<line, "Translation failed">>

=============================================================================
